---- MODULE Spec2Model ----
(***************************************************************************)
(* Model of the k8s-ml-deployments repository: the two training scripts    *)
(* (train_model.py, train_custom.py) that persist a classifier and its     *)
(* metadata into the directory model/, the Flask prediction service        *)
(* (app.py) that loads that directory once at startup and answers HTTP     *)
(* requests, and an HTTP caller (client.py or any other) that sends one    *)
(* request at a time and reads the response.                               *)
(***************************************************************************)
EXTENDS Integers, Sequences, FiniteSets, TLC

VARIABLES
    dir,        \* the artifact directory model/: content of its two files
    runs,       \* number of training runs started so far
    phase,      \* serving process: "start", "serving" or "aborted"
    load_error, \* exception load_model raised at startup ("none" if none)
    model,      \* app.py global `model`
    metadata,   \* app.py global `metadata`
    boot,       \* history: the globals as startup left them
    http,       \* the HTTP exchange in flight: idle, sent, or answered
    failed,     \* history: some earlier request was answered with 500
    csv,        \* the CSV file a load_custom_data call is given
    encoded,    \* what the latest load_custom_data call returned
    previous    \* history: what the call before it returned

service_vars == <<dir, runs, phase, load_error, model, metadata, boot, http, failed>>

encoding_vars == <<csv, encoded, previous>>

vars == <<service_vars, encoding_vars>>

----------------------------------------------------------------------------
(* Bounds of the model *)

MaxRuns == 2        \* training runs per behaviour
MaxLen == 2         \* longest feature row a caller sends
MaxRows == 2        \* most rows in a batch a caller sends
MaxCsvRows == 3     \* most rows of a CSV file given to load_custom_data

----------------------------------------------------------------------------
(* Python and file-system values *)

None == [t |-> "None"]
Absent == [t |-> "absent"]      \* os.path.exists(path) is False
Corrupt == [t |-> "corrupt"]    \* a file joblib.load cannot read (partial write)

Range(s) == {s[i] : i \in DOMAIN s}

Max(S) == CHOOSE x \in S : \A y \in S : y <= x

RECURSIVE SeqsUpTo(_, _)
SeqsUpTo(S, n) ==
    IF n = 0 THEN {<<>>}
    ELSE LET shorter == SeqsUpTo(S, n - 1)
         IN  shorter \cup {Append(s, x) : s \in {q \in shorter : Len(q) = n - 1}, x \in S}

----------------------------------------------------------------------------
(* Training data *)

\* train_model.py create_data(): the iris dataset, fixed
create_data ==
    [feature_names |-> <<"sepal length (cm)", "sepal width (cm)",
                         "petal length (cm)", "petal width (cm)">>,
     target_names  |-> <<"setosa", "versicolor", "virginica">>]

\* The raw labels that occur in the CSV files, each with the code points of
\* its characters (a = 1, b = 2, c = 3).
LabelCodes == [a |-> <<1>>, ab |-> <<1, 2>>, b |-> <<2>>, c |-> <<3>>]

Labels == DOMAIN LabelCodes

\* Python's str < str: lexicographic comparison of the code points
RECURSIVE lex_less(_, _)
lex_less(u, v) ==
    IF v = <<>> THEN FALSE
    ELSE IF u = <<>> THEN TRUE
    ELSE IF u[1] # v[1] THEN u[1] < v[1]
    ELSE lex_less(Tail(u), Tail(v))

str_less(a, b) == lex_less(LabelCodes[a], LabelCodes[b])

\* One step of the sort in np.unique: x put into a sorted list without
\* duplicates
RECURSIVE insert_unique(_, _)
insert_unique(sorted, x) ==
    IF sorted = <<>> THEN <<x>>
    ELSE IF x = sorted[1] THEN sorted
    ELSE IF str_less(x, sorted[1]) THEN <<x>> \o sorted
    ELSE <<sorted[1]>> \o insert_unique(Tail(sorted), x)

\* np.unique(values): the distinct values, sorted
RECURSIVE np_unique(_)
np_unique(values) ==
    IF values = <<>> THEN <<>>
    ELSE insert_unique(np_unique(Tail(values)), values[1])

\* Position of x in a list (0-based), as np.searchsorted finds it
index_of(names, x) == (CHOOSE i \in DOMAIN names : names[i] = x) - 1

\* Faulty variant of classes_: the distinct labels in order of first
\* appearance.
RECURSIVE first_seen(_)
first_seen(labels) ==
    IF labels = <<>> THEN <<>>
    ELSE LET front == first_seen(SubSeq(labels, 1, Len(labels) - 1))
             x == labels[Len(labels)]
         IN  IF x \in Range(front) THEN front ELSE Append(front, x)

classes_first_seen(labels) == first_seen(labels)

\* CSV files given to train_custom.py: the columns left of the target column
\* and the target column's raw labels, row by row.
CsvFiles ==
    { [columns |-> <<"f1", "f2">>, labels |-> <<"b", "a", "b">>],
      [columns |-> <<"f1", "f2">>, labels |-> <<"c", "a", "b">>],
      [columns |-> <<"f1">>,       labels |-> <<"a", "b", "a">>] }

\* LabelEncoder.fit: classes_ = np.unique(y)
classes_(labels) == np_unique(labels)

\* LabelEncoder.fit_transform: each label's position in classes_
fit_transform(labels) ==
    [i \in DOMAIN labels |-> index_of(classes_(labels), labels[i])]

\* train_custom.py load_custom_data (feature_columns unspecified)
load_custom_data(file) ==
    [feature_names |-> file.columns,
     y             |-> fit_transform(file.labels),
     target_names  |-> classes_(file.labels)]

\* train_model(X, y): the fitted classifier, known here by the shape it was
\* trained on (input width, number of classes)
train_model(data) ==
    [t |-> "clf",
     n_features |-> Len(data.feature_names),
     n_classes  |-> Len(data.target_names)]

\* What save_model hands to joblib.dump, tagged with the run that wrote it
model_file(run, data) == [t |-> "file", run |-> run, obj |-> train_model(data)]

metadata_file(run, data) ==
    [t |-> "file", run |-> run,
     obj |-> [t |-> "meta",
              feature_names |-> data.feature_names,
              target_names  |-> data.target_names]]

SaveOutcomes == {"ok", "model_dump_fails", "metadata_dump_fails", "stops_between"}

\* save_model: joblib.dump(model, model_path) and then
\* joblib.dump(metadata, metadata_path), two separate writes. A dump that
\* fails part-way leaves a truncated file; the run may also stop between
\* the two dumps.
save_model(d, run, data, outcome) ==
    CASE outcome = "ok" ->
            [model |-> model_file(run, data), metadata |-> metadata_file(run, data)]
      [] outcome = "model_dump_fails" ->
            [model |-> Corrupt, metadata |-> d.metadata]
      [] outcome = "metadata_dump_fails" ->
            [model |-> model_file(run, data), metadata |-> Corrupt]
      [] outcome = "stops_between" ->
            [model |-> model_file(run, data), metadata |-> d.metadata]

----------------------------------------------------------------------------
(* Loading the artifacts (app.py) *)

Globals(m, md) == [model |-> m, metadata |-> md]

\* load_model: both existence checks first, then model = joblib.load(...),
\* then metadata = joblib.load(...). An exception leaves the globals as the
\* statements before it set them.
load_model(g, d) ==
    IF d.model.t = "absent" THEN g @@ [error |-> "FileNotFoundError"]
    ELSE IF d.metadata.t = "absent" THEN g @@ [error |-> "FileNotFoundError"]
    ELSE IF d.model.t = "corrupt" THEN g @@ [error |-> "UnpicklingError"]
    ELSE IF d.metadata.t = "corrupt"
         THEN Globals(d.model.obj, g.metadata) @@ [error |-> "UnpicklingError"]
    ELSE Globals(d.model.obj, d.metadata.obj) @@ [error |-> "none"]

----------------------------------------------------------------------------
(* JSON values of request bodies *)

NoBody == [t |-> "nobody"]      \* no body, or one request.get_json() rejects
JNull == [t |-> "null"]
JNum(n) == [t |-> "num", n |-> n]
JStr(s) == [t |-> "str", s |-> s]
JList(items) == [t |-> "list", items |-> items]
JObj(fields) == [t |-> "obj", fields |-> fields]

EmptyObj == JObj([k \in {} |-> JNull])

Numbers == {JNum(0), JNum(1)}

NumRows == SeqsUpTo(Numbers, MaxLen)

StrRows == {[i \in 1..n |-> JStr("x")] : n \in 1..MaxLen}

Rows == NumRows \cup StrRows

FeatureLists == {JList(r) : r \in Rows}

\* rows of a batch: numeric rows that differ in their first value, and the
\* rows of strings
BatchRows ==
    {<<>>} \cup StrRows
        \cup {[i \in 1..n |-> IF i = 1 THEN x ELSE JNum(0)] : n \in 1..MaxLen, x \in Numbers}

\* batches: lists of rows, flat lists of scalars, and a list mixing both
SampleLists ==
    {JList(b) : b \in SeqsUpTo({JList(r) : r \in BatchRows}, MaxRows)}
        \cup {JList(r) : r \in Rows \ {<<>>}}
        \cup {JList(<<JList(<<JNum(1)>>), JNum(1)>>)}

\* a field that is a scalar or a mapping
OtherFieldValues == {JNull, JNum(1), JStr("x"), EmptyObj}

NonObjects ==
    {NoBody, JNull, JNum(1), JStr("hello"), JStr("features"), JStr("samples"),
     JList(<<>>), JList(<<JStr("features")>>), JList(<<JStr("samples")>>)}

PredictBodies ==
    NonObjects \cup {EmptyObj, JObj("samples" :> JList(<<>>))}
        \cup {JObj("features" :> v) : v \in FeatureLists \cup OtherFieldValues}

BatchBodies ==
    NonObjects \cup {EmptyObj, JObj("features" :> JList(<<>>))}
        \cup {JObj("samples" :> v) : v \in SampleLists \cup OtherFieldValues}

----------------------------------------------------------------------------
(* The Classifier (scikit-learn RandomForestClassifier), an opaque           *)
(* deterministic function of each input row                                  *)

RECURSIVE SumRow(_)
SumRow(row) == IF row = <<>> THEN 0 ELSE row[1].n + SumRow(Tail(row))

\* The input check of predict / predict_proba: every value numeric and the
\* batch as wide as the data the classifier was fitted on; ValueError if not.
clf_accepts(clf, rows) ==
    \A i \in DOMAIN rows :
        /\ Len(rows[i]) = clf.n_features
        /\ \A j \in DOMAIN rows[i] : rows[i][j].t = "num"

\* model.predict: one class index in [0, n_classes) per row
clf_predict(clf, rows) ==
    [i \in DOMAIN rows |-> SumRow(rows[i]) % clf.n_classes]

\* model.predict_proba: one row of n_classes weights per input row, the
\* largest one at the predicted index (weights in units of 1/(n_classes+1))
clf_predict_proba(clf, rows) ==
    [i \in DOMAIN rows |->
        [j \in 1..clf.n_classes |->
            IF j - 1 = SumRow(rows[i]) % clf.n_classes THEN 2 ELSE 1]]

----------------------------------------------------------------------------
(* numpy *)

\* np.array(items) of a JSON list: its shape, or ValueError for a list whose
\* elements do not form a rectangle (numpy >= 1.24; older releases build a
\* one-dimensional object array instead, whose shape[1] fails the same way).
np_array(items) ==
    IF \A i \in DOMAIN items : items[i].t # "list"
    THEN [raised |-> FALSE, shape |-> <<Len(items)>>]
    ELSE IF /\ \A i \in DOMAIN items : items[i].t = "list"
            /\ \A i, k \in DOMAIN items : Len(items[i].items) = Len(items[k].items)
    THEN [raised |-> FALSE, shape |-> <<Len(items), Len(items[1].items)>>]
    ELSE [raised |-> TRUE]

----------------------------------------------------------------------------
(* Request handlers (app.py) *)

Response(status, payload, calls) ==
    [status |-> status, payload |-> payload, calls |-> calls]

\* except Exception as e: return jsonify({'error': str(e), 'type': ...}), 500
except_Exception(type, calls) == Response(500, [type |-> type], calls)

\* `key in data` for the value request.get_json() returned
py_in(key, data) ==
    CASE data.t = "obj"  -> IF key \in DOMAIN data.fields THEN "yes" ELSE "no"
      [] data.t = "list" -> IF \E i \in DOMAIN data.items :
                                    data.items[i].t = "str" /\ data.items[i].s = key
                            THEN "yes" ELSE "no"
      [] data.t = "str"  -> IF data.s = key THEN "yes" ELSE "no"  \* substring test
      [] OTHER           -> "TypeError"

\* {target_names[i]: float(prob) for i, prob in enumerate(probs)}
probabilities_dict(target_names, probs) ==
    [l \in {target_names[j] : j \in DOMAIN probs} |->
        probs[Max({j \in DOMAIN probs : target_names[j] = l})]]

\* Building a result fails with IndexError when the predicted index or a
\* probability column has no entry in target_names.
shaping_fails(md, pred, probs) ==
    pred >= Len(md.target_names) \/ Len(probs) > Len(md.target_names)

\* Faulty variant of result_entry: only the predicted label gets a probability.
result_entry_top_only(md, pred, probs) ==
    [prediction |-> pred,
     predicted_class |-> md.target_names[pred + 1],
     probabilities |-> [l \in {md.target_names[pred + 1]} |-> probs[pred + 1]],
     confidence |-> Max(Range(probs))]

\* The result record of one row (the timestamp is left out)
result_entry(md, pred, probs) ==
    [prediction |-> pred,
     predicted_class |-> md.target_names[pred + 1],
     probabilities |-> probabilities_dict(md.target_names, probs),
     confidence |-> Max(Range(probs))]

home(m, md) ==
    Response(200, [status |-> "healthy", model_loaded |-> m.t # "None"], <<>>)

health(m, md) ==
    IF m.t = "None"
    THEN Response(503, [status |-> "unhealthy", reason |-> "model not loaded"], <<>>)
    ELSE Response(200, [status |-> "healthy"], <<>>)

\* An exception here is not caught by the handler: Flask answers 500.
model_info(m, md) ==
    IF m.t = "None" THEN Response(503, [error |-> "Model not loaded"], <<>>)
    ELSE IF md.t = "None" THEN Response(500, [type |-> "TypeError"], <<>>)
    ELSE Response(200,
            [feature_names |-> md.feature_names,
             target_names |-> md.target_names,
             num_features |-> Len(md.feature_names),
             num_classes |-> Len(md.target_names),
             model_type |-> "RandomForestClassifier"], <<>>)

Invalid(response) == [ok |-> FALSE, response |-> response]

\* Faulty variant of validate_features: the length check runs before the list check.
validate_features_length_first(md, data) ==
    IF data.t = "nobody" THEN Invalid(except_Exception("BadRequest", <<>>))
    ELSE IF py_in("features", data) = "TypeError"
         THEN Invalid(except_Exception("TypeError", <<>>))
    ELSE IF py_in("features", data) = "no"
         THEN Invalid(Response(400, [error |-> "Missing features in request body"], <<>>))
    ELSE IF data.t # "obj" THEN Invalid(except_Exception("TypeError", <<>>))
    ELSE LET features == data.fields["features"]
             length == CASE features.t = "list" -> Len(features.items)
                         [] features.t = "str"  -> 1
                         [] features.t = "obj"  -> Cardinality(DOMAIN features.fields)
                         [] OTHER               -> -1
         IN
         IF length = -1 THEN Invalid(except_Exception("TypeError", <<>>))
         ELSE IF length # Len(md.feature_names)
         THEN Invalid(Response(400,
                [error |-> "Expected features",
                 expected |-> Len(md.feature_names),
                 got |-> length,
                 expected_features |-> md.feature_names], <<>>))
         ELSE IF features.t # "list"
         THEN Invalid(Response(400, [error |-> "features must be a list"], <<>>))
         ELSE [ok |-> TRUE, features |-> features.items]

\* predict, from request.get_json() to the length check: the validated
\* feature list, or the response that ends the request.
validate_features(md, data) ==
    IF data.t = "nobody" THEN Invalid(except_Exception("BadRequest", <<>>))
    ELSE IF py_in("features", data) = "TypeError"
         THEN Invalid(except_Exception("TypeError", <<>>))
    ELSE IF py_in("features", data) = "no"
         THEN Invalid(Response(400, [error |-> "Missing features in request body"], <<>>))
    ELSE IF data.t # "obj" THEN Invalid(except_Exception("TypeError", <<>>))
    ELSE LET features == data.fields["features"] IN
         IF features.t # "list"
         THEN Invalid(Response(400, [error |-> "features must be a list"], <<>>))
         ELSE IF md.t = "None" THEN Invalid(except_Exception("TypeError", <<>>))
         ELSE IF Len(features.items) # Len(md.feature_names)
         THEN Invalid(Response(400,
                [error |-> "Expected features",
                 expected |-> Len(md.feature_names),
                 got |-> Len(features.items),
                 expected_features |-> md.feature_names], <<>>))
         ELSE [ok |-> TRUE, features |-> features.items]

\* predict, from np.array([features]) to the return of the result
predict_one(m, md, features) ==
    LET features_array == <<features>> IN
    IF ~clf_accepts(m, features_array)
    THEN except_Exception("ValueError", <<"predict">>)
    ELSE LET prediction == clf_predict(m, features_array)[1]
             probabilities == clf_predict_proba(m, features_array)[1]
         IN  IF shaping_fails(md, prediction, probabilities)
             THEN except_Exception("IndexError", <<"predict", "predict_proba">>)
             ELSE Response(200, result_entry(md, prediction, probabilities),
                           <<"predict", "predict_proba">>)

predict(m, md, body) ==
    IF m.t = "None" THEN Response(503, [error |-> "Model not loaded"], <<>>)
    ELSE LET v == validate_features(md, body)
         IN  IF v.ok THEN predict_one(m, md, v.features) ELSE v.response

\* predict_batch, from request.get_json() to the width check: the rows of
\* the batch, or the response that ends the request.
validate_samples(md, data) ==
    IF data.t = "nobody" THEN Invalid(except_Exception("BadRequest", <<>>))
    ELSE IF py_in("samples", data) = "TypeError"
         THEN Invalid(except_Exception("TypeError", <<>>))
    ELSE IF py_in("samples", data) = "no"
         THEN Invalid(Response(400, [error |-> "Missing samples in request body"], <<>>))
    ELSE IF data.t # "obj" THEN Invalid(except_Exception("TypeError", <<>>))
    ELSE LET samples == data.fields["samples"] IN
         IF samples.t # "list"
         THEN Invalid(Response(400, [error |-> "samples must be a list"], <<>>))
         ELSE LET features_array == np_array(samples.items) IN
              IF features_array.raised
              THEN Invalid(except_Exception("ValueError", <<>>))
              ELSE IF Len(features_array.shape) < 2
              THEN Invalid(except_Exception("IndexError", <<>>))
              ELSE IF md.t = "None" THEN Invalid(except_Exception("TypeError", <<>>))
              ELSE IF features_array.shape[2] # Len(md.feature_names)
              THEN Invalid(Response(400,
                     [error |-> "Expected features per sample",
                      expected |-> Len(md.feature_names),
                      expected_features |-> md.feature_names], <<>>))
              ELSE [ok |-> TRUE,
                    rows |-> [i \in DOMAIN samples.items |-> samples.items[i].items]]

\* Faulty variant of batch_results: the results are collected in reverse row order.
batch_results_reversed(md, predictions, probabilities) ==
    [i \in 1..Len(predictions) |->
        [sample_index |-> i - 1]
            @@ result_entry(md, predictions[Len(predictions) + 1 - i],
                            probabilities[Len(predictions) + 1 - i])]

\* The loop over enumerate(zip(predictions, probabilities))
batch_results(md, predictions, probabilities) ==
    [i \in 1..Len(predictions) |->
        [sample_index |-> i - 1]
            @@ result_entry(md, predictions[i], probabilities[i])]

\* predict_batch, from model.predict to the return of the results
predict_rows(m, md, rows) ==
    IF ~clf_accepts(m, rows)
    THEN except_Exception("ValueError", <<"predict">>)
    ELSE LET predictions == clf_predict(m, rows)
             probabilities == clf_predict_proba(m, rows)
         IN  IF \E i \in DOMAIN rows :
                    shaping_fails(md, predictions[i], probabilities[i])
             THEN except_Exception("IndexError", <<"predict", "predict_proba">>)
             ELSE LET results == batch_results(md, predictions, probabilities)
                  IN  Response(200,
                        [predictions |-> results, total_samples |-> Len(results)],
                        <<"predict", "predict_proba">>)

\* Faulty variant of predict_batch: the `model is None` check is missing.
predict_batch_unguarded(m, md, body) ==
    LET v == validate_samples(md, body)
    IN  IF v.ok THEN predict_rows(m, md, v.rows) ELSE v.response

predict_batch(m, md, body) ==
    IF m.t = "None" THEN Response(503, [error |-> "Model not loaded"], <<>>)
    ELSE LET v == validate_samples(md, body)
         IN  IF v.ok THEN predict_rows(m, md, v.rows) ELSE v.response

\* Faulty variant of after_request: a handler that unloads the model when it fails.
after_request_unloads(g, response) ==
    IF response.status = 500 THEN [model |-> None, metadata |-> None] ELSE g

\* The globals after a request: no handler declares `global`, so none can
\* rebind `model` or `metadata`.
after_request(g, response) == g

\* Faulty variant of after_load: the exception of load_model() is swallowed.
after_load_ignoring_error(error) == "serving"

\* __main__: an exception of load_model() ends the process before app.run
after_load(error) == IF error = "none" THEN "serving" ELSE "aborted"

----------------------------------------------------------------------------
(* The training pipeline: load data, fit, evaluate, persist *)

TrainOutcomes == SaveOutcomes \cup {"fails_before_save"}

\* main() of either training script: a failure while loading or fitting
\* ends the run before save_model is reached.
main(d, run, data, outcome) ==
    IF outcome = "fails_before_save" THEN d ELSE save_model(d, run, data, outcome)

----------------------------------------------------------------------------
(* State machine *)

Idle == [st |-> "idle"]

Routes == {"/", "/health", "/model/info", "/predict", "/predict/batch"}

BodiesFor(route) ==
    CASE route = "/predict"       -> PredictBodies
      [] route = "/predict/batch" -> BatchBodies
      [] OTHER                    -> {NoBody}

Init ==
    /\ dir = [model |-> Absent, metadata |-> Absent]
    /\ runs = 0
    /\ phase = "start"
    /\ load_error = "none"
    /\ model = None
    /\ metadata = None
    /\ boot = Globals(None, None)
    /\ http = Idle
    /\ failed = FALSE
    /\ csv = None
    /\ encoded = None
    /\ previous = None

\* A training run. The artifacts are produced offline, before the serving
\* process of the deployment starts; that process reads the directory only
\* in load_model, so later runs cannot reach it.
Train(data, outcome) ==
    /\ phase = "start"
    /\ runs < MaxRuns
    /\ runs' = runs + 1
    /\ dir' = main(dir, runs + 1, data, outcome)
    /\ UNCHANGED <<phase, load_error, model, metadata, boot, http, failed, encoding_vars>>

\* python train_model.py
train_model_py == \E outcome \in TrainOutcomes : Train(create_data, outcome)

\* python train_custom.py --data csv --target y
train_custom_py ==
    \E file \in CsvFiles, outcome \in TrainOutcomes :
        Train(load_custom_data(file), outcome)

\* python app.py: load_model(), then app.run(...)
app_main ==
    /\ phase = "start"
    /\ LET r == load_model(Globals(model, metadata), dir) IN
        /\ model' = r.model
        /\ metadata' = r.metadata
        /\ load_error' = r.error
        /\ boot' = Globals(r.model, r.metadata)
        /\ phase' = after_load(r.error)
    /\ UNCHANGED <<dir, runs, http, failed, encoding_vars>>

\* app.py imported by a WSGI host (flask run, gunicorn app:app): __name__ is
\* not '__main__', load_model is not called and the globals stay None.
app_import ==
    /\ phase = "start"
    /\ phase' = "serving"
    /\ boot' = Globals(model, metadata)
    /\ UNCHANGED <<dir, runs, load_error, model, metadata, http, failed, encoding_vars>>

\* A caller sends a request; the service handles one request at a time.
send ==
    /\ phase = "serving"
    /\ http.st = "idle"
    /\ \E route \in Routes : \E body \in BodiesFor(route) :
            http' = [st |-> "sent", route |-> route, body |-> body]
    /\ UNCHANGED <<dir, runs, phase, load_error, model, metadata, boot, failed, encoding_vars>>

\* The handler of `route` runs to its return and the response goes out.
Answer(route, response) ==
    /\ phase = "serving"
    /\ http.st = "sent"
    /\ http.route = route
    /\ http' = [st |-> "answered", route |-> route, body |-> http.body,
                status |-> response.status, payload |-> response.payload,
                calls |-> response.calls]
    /\ LET g == after_request(Globals(model, metadata), response) IN
        /\ model' = g.model
        /\ metadata' = g.metadata
    /\ failed' = (failed \/ response.status = 500)
    /\ UNCHANGED <<dir, runs, phase, load_error, boot, encoding_vars>>

route_home == Answer("/", home(model, metadata))

route_health == Answer("/health", health(model, metadata))

route_model_info == Answer("/model/info", model_info(model, metadata))

route_predict == Answer("/predict", predict(model, metadata, http.body))

route_predict_batch ==
    Answer("/predict/batch", predict_batch(model, metadata, http.body))

\* The caller reads the response (response.json() in client.py).
receive ==
    /\ http.st = "answered"
    /\ http' = Idle
    /\ UNCHANGED <<dir, runs, phase, load_error, model, metadata, boot, failed, encoding_vars>>

Next ==
    \/ train_model_py
    \/ train_custom_py
    \/ app_main
    \/ app_import
    \/ send
    \/ route_home
    \/ route_health
    \/ route_model_info
    \/ route_predict
    \/ route_predict_batch
    \/ receive

Spec == Init /\ [][Next]_vars

----------------------------------------------------------------------------
(* load_custom_data on its own: a CSV file is encoded, its rows are        *)
(* shuffled, and it is encoded again                                       *)

LabelColumns == SeqsUpTo(Labels, MaxCsvRows) \ {<<>>}

InitEncode ==
    /\ dir = [model |-> Absent, metadata |-> Absent]
    /\ runs = 0
    /\ phase = "start"
    /\ load_error = "none"
    /\ model = None
    /\ metadata = None
    /\ boot = Globals(None, None)
    /\ http = Idle
    /\ failed = FALSE
    /\ csv \in {[columns |-> <<"f1", "f2">>, labels |-> l] : l \in LabelColumns}
    /\ encoded = None
    /\ previous = None

\* load_custom_data(csv_path, target_column): the call of train_custom.py
load ==
    /\ encoded' = [t |-> "data", labels |-> csv.labels] @@ load_custom_data(csv)
    /\ previous' = encoded
    /\ UNCHANGED <<csv, service_vars>>

\* The rows of the CSV file are reordered between two training runs.
shuffle ==
    /\ \E i, j \in DOMAIN csv.labels :
            /\ i < j
            /\ csv.labels[i] # csv.labels[j]
            /\ csv' = [csv EXCEPT !.labels =
                            [csv.labels EXCEPT ![i] = csv.labels[j],
                                               ![j] = csv.labels[i]]]
    /\ UNCHANGED <<encoded, previous, service_vars>>

NextEncode == load \/ shuffle

SpecEncode == InitEncode /\ [][NextEncode]_vars

----------------------------------------------------------------------------
(* Properties *)

Loaded(x) == x.t # "None"

Answered(route) == http.st = "answered" /\ http.route = route

\* The serving process holds a usable (Classifier, Metadata) pair.
PairLoaded == Loaded(model) /\ Loaded(metadata)

\* The Classifier honours its contract for the loaded Metadata: it was
\* fitted on len(feature_names) columns and len(target_names) classes.
PairConsistent ==
    /\ PairLoaded
    /\ model.n_features = Len(metadata.feature_names)
    /\ model.n_classes = Len(metadata.target_names)

HasField(body, key) == body.t = "obj" /\ key \in DOMAIN body.fields

IsListField(body, key) == HasField(body, key) /\ body.fields[key].t = "list"

IsNumericRow(row) == \A j \in DOMAIN row : row[j].t = "num"

\* C1: In every reachable state the two halves of the process-wide state are
\* both loaded or both empty, after any outcome of load_model, and no
\* handler answers a request as loaded while only one half is set.
C1_BothHalvesOrNeither ==
    /\ Loaded(model) <=> Loaded(metadata)
    /\ (http.st = "answered" /\ http.status = 200 /\ http.route # "/")
            => (Loaded(model) /\ Loaded(metadata))

\* C2: The state slot goes from empty to loaded at most once, only at
\* startup and before any request is accepted; afterwards no operation
\* changes model or metadata; and when load_model fails because an artifact
\* is absent the process never accepts a request.
C2_LoadedOnceAtStartup ==
    /\ [][(model' # model \/ metadata' # metadata)
            => (/\ phase = "start" /\ phase' # "start"
                /\ ~Loaded(model) /\ ~Loaded(metadata)
                /\ http.st = "idle")]_vars
    /\ [][phase # "start" => phase' = phase]_vars
    /\ [](phase # "serving" => (http.st = "idle" /\ ~failed))
    /\ [](load_error # "none" => phase = "aborted")

\* C2 witness: a loaded process has answered a request on an error path.
C2_Witness ==
    /\ phase = "serving" /\ PairLoaded
    /\ http.st = "answered" /\ http.status = 500

LivenessRoutes == {"/", "/health"}

\* C3: While no model is loaded, /model/info, /predict and /predict/batch
\* answer 503 for every request body, and no route other than the liveness
\* routes answers with a success status.
C3_UnloadedIs503 ==
    (http.st = "answered" /\ ~Loaded(model)) =>
        /\ http.route \notin LivenessRoutes => http.status = 503
        /\ http.status < 400 => http.route \in LivenessRoutes

\* C3 witness: an unloaded process has answered a batch request.
C3_Witness ==
    /\ Answered("/predict/batch") /\ ~Loaded(model)
    /\ HasField(http.body, "samples")

\* C4: POST /predict with a model loaded validates in the order field
\* present, field is a list, length equals len(feature_names), and stops at
\* the first failed check; the Classifier is invoked only when all three
\* pass; a wrong length yields 400 citing the expected count and no call.
C4_PredictValidationOrder ==
    (Answered("/predict") /\ PairLoaded) =>
        LET b == http.body
            present == HasField(b, "features")
            is_list == IsListField(b, "features")
            good_len == is_list /\ Len(b.fields["features"].items)
                                        = Len(metadata.feature_names)
        IN  /\ http.calls # <<>> => good_len
            /\ (b.t = "obj" /\ ~present) =>
                    /\ http.status = 400 /\ http.calls = <<>>
                    /\ http.payload.error = "Missing features in request body"
            /\ (present /\ ~is_list) =>
                    /\ http.status = 400 /\ http.calls = <<>>
                    /\ http.payload.error = "features must be a list"
            /\ (is_list /\ ~good_len) =>
                    /\ http.status = 400 /\ http.calls = <<>>
                    /\ http.payload.error = "Expected features"
                    /\ http.payload.expected = Len(metadata.feature_names)

\* C4 witness: a feature list of wrong length was answered.
C4_Witness ==
    /\ Answered("/predict") /\ PairLoaded
    /\ IsListField(http.body, "features")
    /\ Len(http.body.fields["features"].items) # Len(metadata.feature_names)

\* A request body the service must reject as the caller's mistake: not a
\* JSON object, field missing, field not a list, wrong length (predict);
\* batch empty, not a list of rows, or with a row of wrong width.
Malformed(route, body) ==
    LET key == IF route = "/predict" THEN "features" ELSE "samples" IN
    \/ ~IsListField(body, key)
    \/ LET items == body.fields[key].items IN
        IF route = "/predict"
        THEN Len(items) # Len(metadata.feature_names)
        ELSE \/ items = <<>>
             \/ \E i \in DOMAIN items : items[i].t # "list"
             \/ \E i \in DOMAIN items :
                    /\ items[i].t = "list"
                    /\ Len(items[i].items) # Len(metadata.feature_names)

\* C5: With a model loaded every malformed request to /predict or
\* /predict/batch yields 400 and never 500; 500 is returned only when the
\* Classifier call or response shaping fails on a request that passed
\* validation; 503 is returned only when no model is loaded.
C5_FailureClassesDistinct ==
    (http.st = "answered" /\ http.route \in {"/predict", "/predict/batch"}) =>
        /\ (PairLoaded /\ Malformed(http.route, http.body)) => http.status = 400
        /\ http.status = 500 =>
                (PairLoaded /\ ~Malformed(http.route, http.body) /\ http.calls # <<>>)
        /\ http.status = 503 => ~Loaded(model)

\* A batch whose rows differ in length, or have a row that is not as long as
\* feature_names.
Ragged(body) ==
    /\ IsListField(body, "samples")
    /\ body.fields["samples"].items # <<>>
    /\ \A i \in DOMAIN body.fields["samples"].items :
            body.fields["samples"].items[i].t = "list"
    /\ \E i \in DOMAIN body.fields["samples"].items :
            Len(body.fields["samples"].items[i].items) # Len(metadata.feature_names)

\* C6: With a model loaded a ragged batch is rejected as one 400 for the
\* whole request: the Classifier is not invoked and the response holds no
\* per-row results.
C6_RaggedBatchIs400 ==
    (Answered("/predict/batch") /\ PairLoaded /\ Ragged(http.body)) =>
        /\ http.status = 400
        /\ http.calls = <<>>
        /\ "predictions" \notin DOMAIN http.payload

\* The rows of a valid batch request: at least one row, each a list of
\* len(feature_names) numbers.
ValidBatch(body) ==
    /\ IsListField(body, "samples")
    /\ body.fields["samples"].items # <<>>
    /\ \A i \in DOMAIN body.fields["samples"].items :
            LET row == body.fields["samples"].items[i] IN
            /\ row.t = "list"
            /\ Len(row.items) = Len(metadata.feature_names)
            /\ IsNumericRow(row.items)

\* C7: For every valid batch of N rows sent to a loaded service the response
\* has N entries, total_samples = N, and entry i has sample_index i and the
\* prediction, label and probabilities the Classifier gives for input row i.
C7_BatchRowsInOrder ==
    (Answered("/predict/batch") /\ PairConsistent /\ ValidBatch(http.body)) =>
        LET rows == http.body.fields["samples"].items
            N == Len(rows)
        IN  /\ http.status = 200
            /\ Len(http.payload.predictions) = N
            /\ http.payload.total_samples = N
            /\ \A i \in 1..N :
                LET entry == http.payload.predictions[i]
                    pred == clf_predict(model, <<rows[i].items>>)[1]
                    probs == clf_predict_proba(model, <<rows[i].items>>)[1]
                IN  /\ entry.sample_index = i - 1
                    /\ entry.prediction = pred
                    /\ entry.predicted_class = metadata.target_names[pred + 1]
                    /\ \A j \in 1..Len(probs) :
                            entry.probabilities[metadata.target_names[j]] = probs[j]

\* C7 witness: a valid batch of two rows with different predictions was
\* answered.
C7_Witness ==
    /\ Answered("/predict/batch") /\ PairConsistent /\ ValidBatch(http.body)
    /\ Len(http.body.fields["samples"].items) >= 2
    /\ http.status = 200
    /\ http.payload.predictions[1].prediction # http.payload.predictions[2].prediction

ValidFeatures(body) ==
    /\ IsListField(body, "features")
    /\ Len(body.fields["features"].items) = Len(metadata.feature_names)
    /\ IsNumericRow(body.fields["features"].items)

\* C8: For every valid single prediction the probabilities mapping has
\* exactly len(target_names) entries, one per target label, predicted_class
\* is target_names[prediction] and confidence is the largest probability.
C8_AllLabelsAndConfidence ==
    (Answered("/predict") /\ PairConsistent /\ ValidFeatures(http.body)) =>
        LET r == http.payload IN
        /\ http.status = 200
        /\ Cardinality(DOMAIN r.probabilities) = Len(metadata.target_names)
        /\ DOMAIN r.probabilities = Range(metadata.target_names)
        /\ r.predicted_class = metadata.target_names[r.prediction + 1]
        /\ r.confidence = Max({r.probabilities[l] : l \in DOMAIN r.probabilities})

\* C8 witness: a valid single prediction over three target labels was
\* answered.
C8_Witness ==
    /\ Answered("/predict") /\ PairConsistent /\ ValidFeatures(http.body)
    /\ Len(metadata.target_names) >= 3

\* The response the code gives to a request from the given globals alone.
ResponseFrom(g, route, body) ==
    CASE route = "/"              -> home(g.model, g.metadata)
      [] route = "/health"        -> health(g.model, g.metadata)
      [] route = "/model/info"    -> model_info(g.model, g.metadata)
      [] route = "/predict"       -> predict(g.model, g.metadata, body)
      [] route = "/predict/batch" -> predict_batch(g.model, g.metadata, body)

\* The Classifier, or the shaping of its output, fails on these rows.
ClassifierFails(rows) ==
    \/ ~clf_accepts(model, rows)
    \/ \E i \in DOMAIN rows :
            shaping_fails(metadata, clf_predict(model, rows)[i],
                          clf_predict_proba(model, rows)[i])

\* C9: A failure of the Classifier or of response shaping is answered with
\* 500 inside that request, leaves model and metadata as startup set them,
\* and every request, also one after a failure, is answered as the startup
\* state and the request alone determine.
C9_FailureContained ==
    /\ phase = "serving" => (model = boot.model /\ metadata = boot.metadata)
    /\ http.st = "answered" =>
        LET expected == ResponseFrom(boot, http.route, http.body) IN
        /\ http.status = expected.status
        /\ http.payload = expected.payload
        /\ http.calls = expected.calls
    /\ (Answered("/predict") /\ PairLoaded /\ http.calls # <<>>
            /\ ClassifierFails(<<http.body.fields["features"].items>>))
        => (http.status = 500 /\ phase = "serving")
    /\ (Answered("/predict/batch") /\ PairLoaded /\ http.calls # <<>>
            /\ ClassifierFails([i \in DOMAIN http.body.fields["samples"].items |->
                                    http.body.fields["samples"].items[i].items]))
        => (http.status = 500 /\ phase = "serving")

\* C9 witness: after a request that failed with 500, a prediction request
\* was answered with a result.
C9_Witness ==
    /\ failed /\ Answered("/predict") /\ http.status = 200

\* C10: The output directory holds either both artifacts of one training
\* run or nothing; never only one of the two, and never a model file of one
\* run next to a metadata file of another.
C10_ArtifactsAtomic ==
    \/ dir.model.t = "absent" /\ dir.metadata.t = "absent"
    \/ /\ dir.model.t = "file" /\ dir.metadata.t = "file"
       /\ dir.model.run = dir.metadata.run

StrictlySorted(names) ==
    \A i, k \in DOMAIN names : i < k => str_less(names[i], names[k])

====
